---- MODULE Spec2Model ----
(***************************************************************************)
(* Model of the commit-message generation pipeline of                      *)
(* automated-committing-machine (src/git.rs) and of the slide summarizer   *)
(* (src/img_handler/code_summarizer.rs).                                   *)
(*                                                                         *)
(* Text is modelled as a sequence of one-character strings, so that        *)
(* trimming, replacing and regex matching are computed character by        *)
(* character, the way the library routines compute them.                   *)
(***************************************************************************)
EXTENDS Integers, Sequences, FiniteSets, TLC

VARIABLES
    pc,              \* the step the program is about to take
    config,          \* the loaded configuration
    diff_proc,       \* outcome of the git diff process, once it has run
    git_diffs,       \* the text git_diff returned
    requests,        \* the requests sent to the provider, in order
    response,        \* the provider's answer, once received
    raw_content,     \* the content handed to the post-processing regex
    commit_message,  \* the value generate_commit_message returned
    prompted,        \* what the user did at the prompt, in order
    edited_message,  \* the value edit_commit_message returned
    commits,         \* the message of every invocation of git commit
    result,          \* the value the last step returned
    exit_code        \* exit status of the process, -1 while it runs

vars == <<pc, config, diff_proc, git_diffs, requests, response, raw_content,
          commit_message, prompted, edited_message, commits, result,
          exit_code>>

----------------------------------------------------------------------------
(* Bounds of the model *)

MaxContentLen == 5
MaxTemplateLen == 3
MaxDiffLen == 2
MaxChoices == 2
MaxAttempts == 2
MaxDocs == 2

----------------------------------------------------------------------------
(* Text helpers *)

Str(A, n) == UNION {[1..k -> A] : k \in 0..n}

Min(S) == CHOOSE x \in S : \A y \in S : x <= y
Max(S) == CHOOSE x \in S : \A y \in S : x >= y

\* U+0060, the backtick: a TLA+ string cannot hold that character, so the
\* apostrophe stands for it throughout
BT == "'"

\* char::is_whitespace, and the regex class \s
IsWs(c) == c \in {" ", "\t", "\n"}

IsBlank(s) == \A i \in 1..Len(s) : IsWs(s[i])

\* str::trim
Trim(s) ==
    LET keep == {i \in 1..Len(s) : ~IsWs(s[i])}
    IN  IF keep = {} THEN <<>> ELSE SubSeq(s, Min(keep), Max(keep))

\* Option<String>
None == [some |-> FALSE, val |-> <<>>]
Some(v) == [some |-> TRUE, val |-> v]

\* anyhow::Result<String>
Ok(v) == [ok |-> TRUE, val |-> v, err |-> "none"]
Err(e) == [ok |-> FALSE, val |-> <<>>, err |-> e]
Pending == [ok |-> FALSE, val |-> <<>>, err |-> "pending"]

----------------------------------------------------------------------------
(* The post-processing regex  (?m)^\s*(?:`\s*(.+?)\s*`|(.+?))\s*$          *)
(* Positions are 1-based; p is the index of the next character to read.    *)
(* The regex crate reports the leftmost match and, among the matches at    *)
(* that start, the one a backtracking search would find first: a greedy    *)
(* \s* prefers more characters, the lazy .+? prefers fewer, the first      *)
(* alternative is preferred to the second.                                 *)

\* \s* read at p: the length of the longest run it can take
RECURSIVE WsRun(_, _)
WsRun(s, p) == IF p > Len(s) \/ ~IsWs(s[p]) THEN 0 ELSE 1 + WsRun(s, p + 1)

\* '.' excludes the line feed: the length of the longest run of '.' at p
RECURSIVE DotRun(_, _)
DotRun(s, p) == IF p > Len(s) \/ s[p] = "\n" THEN 0 ELSE 1 + DotRun(s, p + 1)

\* (?m)^
Bol(s, p) == p = 1 \/ s[p - 1] = "\n"

\* (?m)$
Eol(s, p) == p = Len(s) + 1 \/ s[p] = "\n"

\* \s*$ read at p, the greedy \s* trying k characters, then fewer
RECURSIVE LineEndFrom(_, _, _)
LineEndFrom(s, p, k) ==
    IF Eol(s, p + k) THEN TRUE
    ELSE IF k = 0 THEN FALSE
    ELSE LineEndFrom(s, p, k - 1)

LineEnd(s, p) == LineEndFrom(s, p, WsRun(s, p))

\* \s*`\s*$ read at p (what follows group 1), the greedy \s* trying m
\* characters, then fewer
RECURSIVE CloseFrom(_, _, _)
CloseFrom(s, p, m) ==
    IF p + m <= Len(s) /\ s[p + m] = BT /\ LineEnd(s, p + m + 1) THEN TRUE
    ELSE IF m = 0 THEN FALSE
    ELSE CloseFrom(s, p, m - 1)

\* GroupLengths with the groups written (.+) instead of (.+?)
GroupLengths_greedy(max) == [i \in 1..max |-> max + 1 - i]

\* the lengths a group (.+?) tries, in order: lazy, so the shortest first
GroupLengths(max) == [i \in 1..max |-> i]

\* (.+?)\s*`\s*$ read at q, the group trying the lengths order[idx..]
RECURSIVE Group1From(_, _, _, _)
Group1From(s, q, order, idx) ==
    IF idx > Len(order) THEN None
    ELSE IF CloseFrom(s, q + order[idx], WsRun(s, q + order[idx]))
    THEN Some(SubSeq(s, q, q + order[idx] - 1))
    ELSE Group1From(s, q, order, idx + 1)

\* \s*(.+?)\s*`\s*$ read at p, the greedy \s* trying j characters, then
\* fewer
RECURSIVE Alt1From(_, _, _)
Alt1From(s, p, j) ==
    LET g == Group1From(s, p + j, GroupLengths(DotRun(s, p + j)), 1)
    IN  IF g.some THEN g
        ELSE IF j = 0 THEN None
        ELSE Alt1From(s, p, j - 1)

\* first alternative and the rest of the regex, read at p: group 1
Alt1(s, p) ==
    IF p > Len(s) \/ s[p] # BT THEN None
    ELSE Alt1From(s, p + 1, WsRun(s, p + 1))

\* (.+?)\s*$ read at p, the group trying the lengths order[idx..]
RECURSIVE Group2From(_, _, _, _)
Group2From(s, p, order, idx) ==
    IF idx > Len(order) THEN None
    ELSE IF LineEnd(s, p + order[idx])
    THEN Some(SubSeq(s, p, p + order[idx] - 1))
    ELSE Group2From(s, p, order, idx + 1)

\* second alternative and the rest of the regex, read at p: group 2
Alt2(s, p) == Group2From(s, p, GroupLengths(DotRun(s, p)), 1)

NoMatch == [matched |-> FALSE, g1 |-> None, g2 |-> None]

\* (?:...|...)\s*$ read at p: the first alternative is preferred
Alternation(s, p) ==
    LET a1 == Alt1(s, p)
        a2 == Alt2(s, p)
    IN  IF a1.some THEN [matched |-> TRUE, g1 |-> a1, g2 |-> None]
        ELSE IF a2.some THEN [matched |-> TRUE, g1 |-> None, g2 |-> a2]
        ELSE NoMatch

\* ^\s* and the rest, the greedy \s* trying k characters, then fewer
RECURSIVE LeadFrom(_, _, _)
LeadFrom(s, i, k) ==
    LET r == Alternation(s, i + k)
    IN  IF r.matched THEN r
        ELSE IF k = 0 THEN NoMatch
        ELSE LeadFrom(s, i, k - 1)

\* the search for the leftmost match, from start position i on
RECURSIVE CapturesFrom(_, _)
CapturesFrom(s, i) ==
    IF i > Len(s) + 1 THEN NoMatch
    ELSE LET r == IF Bol(s, i) THEN LeadFrom(s, i, WsRun(s, i)) ELSE NoMatch
         IN  IF r.matched THEN r ELSE CapturesFrom(s, i + 1)

\* Regex::captures
Captures(s) == CapturesFrom(s, 1)

\* post-processing of the raw content of the first candidate
PostProcess(content) ==
    LET regex_matches == Captures(content)
    IN  IF ~regex_matches.matched
        THEN Err("Failed to post-process the generated commit message")
        ELSE IF regex_matches.g1.some THEN Ok(regex_matches.g1.val)
        ELSE IF regex_matches.g2.some THEN Ok(regex_matches.g2.val)
        ELSE Err("Failed to post-process the generated commit message")

----------------------------------------------------------------------------
(* src/git.rs: the Git commands *)

\* what the spawned git process does: spawned = the executable could be
\* run, success = exit status 0, utf8 = stdout is valid UTF-8
GitProc(spawned, success, utf8, stdout) ==
    [spawned |-> spawned, success |-> success, utf8 |-> utf8, stdout |-> stdout]

run_git_command(proc) ==
    IF ~proc.spawned THEN Err("Failed to execute Git command.")
    ELSE IF ~proc.success THEN Err("stderr of the Git command")
    ELSE IF ~proc.utf8 THEN Err("Failed to decode output of the Git command.")
    ELSE Ok(proc.stdout)

git_checks(which_ok, proc) ==
    IF ~which_ok THEN Err("Git may not be installed.")
    ELSE IF ~run_git_command(proc).ok
         THEN Err("The current directory is not a Git respository.")
         ELSE Ok(<<>>)

git_commit(proc) ==
    LET r == run_git_command(proc)
    IN  IF ~r.ok THEN r ELSE Ok(Trim(r.val))

\* git_diff testing the untrimmed output for emptiness
git_diff_untrimmed(proc) ==
    LET r == run_git_command(proc)
    IN  IF ~r.ok THEN r
        ELSE IF r.val = <<>>
             THEN Err("There are no staged changes to commit.")
             ELSE Ok(r.val)

git_diff(proc) ==
    LET r == run_git_command(proc)
    IN  IF ~r.ok THEN r
        ELSE LET diffs == Trim(r.val)
             IN  IF diffs = <<>>
                 THEN Err("There are no staged changes to commit.")
                 ELSE Ok(diffs)

----------------------------------------------------------------------------
(* src/git.rs: generate_commit_message *)

\* the substitution marker of the user template
Marker == <<"{", "}">>

\* str::replace: every non-overlapping occurrence of from, found scanning
\* the original text left to right; the replacement is not scanned again
RECURSIVE Replace(_, _, _)
Replace(s, from, to) ==
    IF Len(s) < Len(from) THEN s
    ELSE IF SubSeq(s, 1, Len(from)) = from
         THEN to \o Replace(SubSeq(s, Len(from) + 1, Len(s)), from, to)
         ELSE <<Head(s)>> \o Replace(Tail(s), from, to)

Message(role, content) == [role |-> role, content |-> content]

\* CommitPayload cutting the diff down to its first character
CommitPayload_truncated(cfg, diff) ==
    [model |-> cfg.git_model_name,
     max_tokens |-> cfg.max_chars,
     messages |-> <<Message("system", cfg.commit_prompt),
                    Message("user", Replace(cfg.diff_prompt, Marker,
                                            SubSeq(diff, 1, 1)))>>]

\* the request payload of the commit variant
CommitPayload(cfg, diff) ==
    [model |-> cfg.git_model_name,
     max_tokens |-> cfg.max_chars,
     messages |-> <<Message("system", cfg.commit_prompt),
                    Message("user", Replace(cfg.diff_prompt, Marker, diff))>>]

\* what the provider answers: delivered = send() returned a response,
\* status = its HTTP status, parses = its body is JSON with a choices
\* array, choices = the message.content (string or null) of each choice
HttpResponse(delivered, status, parses, choices) ==
    [delivered |-> delivered, status |-> status, parses |-> parses,
     choices |-> choices]

\* reqwest's Response::error_for_status: an error for 4xx and 5xx
error_for_status(status) == status >= 400 /\ status <= 599

\* FirstContent falling back to the first candidate that has content
FirstContent_fallback(choices) ==
    LET with == {i \in 1..Len(choices) : choices[i].some}
    IN  IF with = {} THEN Err("No commit messages generated")
        ELSE Ok(choices[Min(with)].val)

\* choices.first() ... .content.as_ref(), each with its context
FirstContent(choices) ==
    IF choices = <<>> THEN Err("No commit messages generated")
    ELSE IF ~choices[1].some THEN Err("No commit messages generated")
    ELSE Ok(choices[1].val)

\* the request sent, the raw content handed to the regex (if the function
\* got that far) and the value returned
generate_commit_message(cfg, diff, resp) ==
    LET request == [path |-> "/chat/completions",
                    payload |-> CommitPayload(cfg, diff)]
        Fail(e) == [request |-> request, raw |-> None, result |-> Err(e)]
    IN  IF ~resp.delivered
        THEN Fail("Failed to send the request to the API provider")
        ELSE IF error_for_status(resp.status)
        THEN Fail("HTTP status client error or server error")
        ELSE IF ~resp.parses
        THEN Fail("Failed to parse the response from the API provider")
        ELSE IF ~FirstContent(resp.choices).ok
        THEN Fail(FirstContent(resp.choices).err)
        ELSE LET content == FirstContent(resp.choices).val
             IN  [request |-> request, raw |-> Some(content),
                  result |-> PostProcess(content)]

----------------------------------------------------------------------------
(* src/git.rs: edit_commit_message *)

\* the prompt built without the validator
required_none(text) == TRUE

\* inquire's required! validator: the input is not the empty string
required(text) == text # <<>>

\* what the user does at the prompt: Enter, after replacing the text shown
\* by edit (None = the text is left as shown), ESC, or the terminal fails
Enter(edit) == [kind |-> "enter", edit |-> edit]
Cancel == [kind |-> "cancel", edit |-> None]
PromptFailure == [kind |-> "io", edit |-> None]

\* Text::prompt with the validator: a submission the validator rejects
\* leaves the prompt open; Pending = the prompt is still waiting
RECURSIVE Prompt(_, _)
Prompt(shown, events) ==
    IF events = <<>> THEN Pending
    ELSE LET e == Head(events)
             text == IF e.edit.some THEN e.edit.val ELSE shown
         IN  IF e.kind = "cancel" THEN Err("OperationCanceled")
             ELSE IF e.kind = "io" THEN Err("IO error")
             ELSE IF required(text) THEN Ok(text)
             ELSE Prompt(text, Tail(events))

\* edit_commit_message wrapping every error of the prompt in one context
edit_commit_message_ctx(generated_commit_message, events) ==
    LET r == Prompt(generated_commit_message, events)
    IN  IF r.ok \/ r = Pending THEN r
        ELSE Err("Failed to read the commit message")

edit_commit_message(generated_commit_message, events) ==
    Prompt(generated_commit_message, events)

----------------------------------------------------------------------------
(* src/img_handler/code_summarizer.rs: generate_slide_summary *)

RECURSIVE UserMessages(_)
UserMessages(file_text_list) ==
    IF file_text_list = <<>> THEN <<>>
    ELSE <<Message("user", Head(file_text_list))>>
         \o UserMessages(Tail(file_text_list))

SummaryPayload(cfg, file_text_list) ==
    [model |-> cfg.git_model_name,
     max_tokens |-> cfg.max_chars,
     messages |-> <<Message("system", cfg.slides_prompt)>>
                  \o UserMessages(file_text_list)]

\* SlideResponse declares content as String: a null content does not
\* deserialize
SlideParses(resp) ==
    resp.parses /\ \A i \in 1..Len(resp.choices) : resp.choices[i].some

generate_slide_summary(cfg, file_text_list, resp) ==
    LET request == [path |-> "", payload |-> SummaryPayload(cfg, file_text_list)]
        Fail(e) == [request |-> request, result |-> Err(e)]
    IN  IF ~resp.delivered
        THEN Fail("Failed to send the request to the API provider")
        ELSE IF ~SlideParses(resp)
        THEN Fail("error decoding response body")
        ELSE IF resp.choices = <<>>
        THEN Fail("panic: called Option::unwrap() on a None value")
        ELSE [request |-> request, result |-> Ok(resp.choices[1].val)]

----------------------------------------------------------------------------
(* The program: git checks, diff, generate, confirm, commit; or the slide  *)
(* summary.                                                               *)

\* exit status of the process for the value its last step returned
main_exit_code(r) == IF r.ok \/ r.err = "OperationCanceled" THEN 0 ELSE 1

Config(template) ==
    [git_model_name |-> "model", max_chars |-> 64,
     commit_prompt |-> <<"S">>, diff_prompt |-> template,
     slides_prompt |-> <<"P">>]

Configs == {Config(<<"t", "{", "}">>)}

GitProcs(outs) ==
    {GitProc(FALSE, FALSE, FALSE, <<>>), GitProc(TRUE, FALSE, FALSE, <<>>),
     GitProc(TRUE, TRUE, FALSE, <<>>)}
    \cup {GitProc(TRUE, TRUE, TRUE, o) : o \in outs}

DiffOutputs == Str({"d", "\n"}, MaxDiffLen)

Statuses == {200, 304, 500}

Contents == {<<>>, <<" ">>, <<BT, "m", BT>>}

Candidates == {None} \cup {Some(c) : c \in Contents}

Responses ==
    {HttpResponse(FALSE, 0, FALSE, <<>>)}
    \cup {HttpResponse(TRUE, st, FALSE, <<>>) : st \in Statuses}
    \cup {HttpResponse(TRUE, st, TRUE, ch) :
            st \in Statuses, ch \in Str(Candidates, MaxChoices)}

UserEvents ==
    {Enter(None), Enter(Some(<<>>)), Enter(Some(<<"e">>)), Cancel, PromptFailure}

Documents == Str({<<"a">>, <<"b">>}, MaxDocs)

Init ==
    /\ pc \in {"checks", "summary"}
    /\ config \in Configs
    /\ diff_proc = None
    /\ git_diffs = <<>>
    /\ requests = <<>>
    /\ prompted = <<>>
    /\ response = None
    /\ raw_content = None
    /\ commit_message = None
    /\ edited_message = None
    /\ commits = <<>>
    /\ result = Pending
    /\ exit_code = -1

\* the process ends with the value r
Exit(r) ==
    /\ pc' = "exit"
    /\ result' = r
    /\ exit_code' = main_exit_code(r)

MainGitChecks(which_ok, proc) ==
    /\ pc = "checks"
    /\ LET r == git_checks(which_ok, proc)
       IN  IF r.ok
           THEN pc' = "diff" /\ UNCHANGED <<result, exit_code>>
           ELSE Exit(r)
    /\ UNCHANGED <<config, diff_proc, git_diffs, requests, response,
                   raw_content, commit_message, prompted, edited_message,
                   commits>>

MainGitDiff(proc) ==
    /\ pc = "diff"
    /\ diff_proc' = Some(proc)
    /\ LET r == git_diff(proc)
       IN  IF r.ok
           THEN /\ pc' = "generate"
                /\ git_diffs' = r.val
                /\ UNCHANGED <<result, exit_code>>
           ELSE Exit(r) /\ UNCHANGED git_diffs
    /\ UNCHANGED <<config, requests, response, raw_content,
                   commit_message, prompted, edited_message, commits>>

MainGenerate(resp) ==
    /\ pc = "generate"
    /\ LET g == generate_commit_message(config, git_diffs, resp)
       IN  /\ requests' = Append(requests, g.request)
           /\ response' = Some(resp)
           /\ raw_content' = g.raw
           /\ IF g.result.ok
              THEN /\ pc' = "confirm"
                   /\ commit_message' = Some(g.result.val)
                   /\ UNCHANGED <<result, exit_code>>
              ELSE Exit(g.result) /\ UNCHANGED commit_message
    /\ UNCHANGED <<config, diff_proc, git_diffs, prompted, edited_message,
                   commits>>

MainEdit(events) ==
    /\ pc = "confirm"
    /\ prompted' = events
    /\ LET r == edit_commit_message(commit_message.val, events)
       IN  /\ r # Pending
           /\ edit_commit_message(commit_message.val,
                                  SubSeq(events, 1, Len(events) - 1)) = Pending
           /\ IF r.ok
              THEN /\ pc' = "commit"
                   /\ edited_message' = Some(r.val)
                   /\ UNCHANGED <<result, exit_code>>
              ELSE Exit(r) /\ UNCHANGED edited_message
    /\ UNCHANGED <<config, diff_proc, git_diffs, requests, response,
                   raw_content, commit_message, commits>>

MainCommit(proc) ==
    /\ pc = "commit"
    /\ commits' = Append(commits, edited_message.val)
    /\ Exit(git_commit(proc))
    /\ UNCHANGED <<config, diff_proc, git_diffs, requests, response,
                   raw_content, commit_message, prompted, edited_message>>

MainSummary(file_text_list, resp) ==
    /\ pc = "summary"
    /\ LET g == generate_slide_summary(config, file_text_list, resp)
       IN  /\ requests' = Append(requests, g.request)
           /\ response' = Some(resp)
           /\ Exit(g.result)
    /\ UNCHANGED <<config, diff_proc, git_diffs, raw_content, commit_message,
                   prompted, edited_message, commits>>

Next ==
    \/ \E which_ok \in BOOLEAN, proc \in GitProcs({<<"t">>}) :
          MainGitChecks(which_ok, proc)
    \/ \E proc \in GitProcs(DiffOutputs) : MainGitDiff(proc)
    \/ \E resp \in Responses : MainGenerate(resp)
    \/ \E events \in Str(UserEvents, MaxAttempts) \ {<<>>} : MainEdit(events)
    \/ \E proc \in GitProcs({<<"o", "\n">>}) : MainCommit(proc)
    \/ \E docs \in Documents, resp \in Responses : MainSummary(docs, resp)

Spec == Init /\ [][Next]_vars

----------------------------------------------------------------------------
(* generate_commit_message on every short raw content *)

SanitizeAlphabet == {" ", "\t", "\n", BT, "a"}

RawContents == Str(SanitizeAlphabet, MaxContentLen)

InitSanitize ==
    /\ pc = "generate"
    /\ config = Config(Marker)
    /\ diff_proc = Some(GitProc(TRUE, TRUE, TRUE, <<"d">>))
    /\ git_diffs = <<"d">>
    /\ requests = <<>>
    /\ prompted = <<>>
    /\ response = None
    /\ raw_content = None
    /\ commit_message = None
    /\ edited_message = None
    /\ commits = <<>>
    /\ result = Pending
    /\ exit_code = -1

NextSanitize ==
    \E c \in RawContents : MainGenerate(HttpResponse(TRUE, 200, TRUE, <<Some(c)>>))

SpecSanitize == InitSanitize /\ [][NextSanitize]_vars

----------------------------------------------------------------------------
(* generate_commit_message on every short user template and diff *)

Templates == Str({"{", "}", "t"}, MaxTemplateLen)

\* git_diff returns trimmed, non-empty text
DiffTexts == Str({"{", "}", "d"}, MaxDiffLen) \ {<<>>}

InitRequest ==
    /\ pc = "generate"
    /\ config \in {Config(t) : t \in Templates}
    /\ git_diffs \in DiffTexts
    /\ diff_proc = Some(GitProc(TRUE, TRUE, TRUE, git_diffs))
    /\ requests = <<>>
    /\ prompted = <<>>
    /\ response = None
    /\ raw_content = None
    /\ commit_message = None
    /\ edited_message = None
    /\ commits = <<>>
    /\ result = Pending
    /\ exit_code = -1

NextRequest ==
    \E resp \in {HttpResponse(FALSE, 0, FALSE, <<>>),
                 HttpResponse(TRUE, 200, TRUE, <<Some(<<"m">>)>>)} :
        MainGenerate(resp)

SpecRequest == InitRequest /\ [][NextRequest]_vars

----------------------------------------------------------------------------
(* Properties *)

PostProcessingFailed == Err("Failed to post-process the generated commit message")
NoCandidates == Err("No commit messages generated")
NoStagedChanges == Err("There are no staged changes to commit.")

Last(q) == q[Len(q)]

\* the run is one of the commit pipeline and has sent its request
CommitRun == requests # <<>> /\ requests[1].path = "/chat/completions"

\* the run is one of the slide summary and has sent its request
SummaryRun == requests # <<>> /\ requests[1].path = ""

\* the line of s that holds its first non-blank character
FirstNonBlankLine(s) ==
    LET i == Min({k \in 1..Len(s) : ~IsWs(s[k])})
        from == Max({0} \cup {k \in 1..(i - 1) : s[k] = "\n"}) + 1
        to == Min({Len(s) + 1} \cup {k \in (i + 1)..Len(s) : s[k] = "\n"}) - 1
    IN  SubSeq(s, from, to)

HasLineBreak(s) == \E k \in 1..Len(s) : s[k] = "\n"

\* t starts with a backtick and ends with another one
BacktickWrapped(t) == Len(t) >= 2 /\ t[1] = BT /\ t[Len(t)] = BT

\* the text between the outer backticks of the trimmed content, trimmed
InnerText(s) == Trim(SubSeq(Trim(s), 2, Len(Trim(s)) - 1))

\* s is one line that, trimmed, is some text wrapped in backticks
SingleWrappedLine(s) ==
    /\ ~HasLineBreak(Trim(s))
    /\ BacktickWrapped(Trim(s))
    /\ InnerText(s) # <<>>

\* C1: whenever the raw content handed to the post-processing step is
\* entirely blank, generate_commit_message fails with the post-processing
\* error and returns no commit message.
C1_BlankContentFails ==
    (raw_content.some /\ IsBlank(raw_content.val)) =>
        /\ result = PostProcessingFailed
        /\ ~commit_message.some

\* C2: a message returned by generate_commit_message never both starts and
\* ends with a backtick (read in the claim's favour: a message that is one
\* lone backtick is not counted).
C2_BackticksStripped ==
    commit_message.some => ~BacktickWrapped(commit_message.val)

\* C3: when the raw content is a single line that, trimmed, is some text
\* wrapped in a pair of backticks (whitespace allowed around the line and
\* inside the backticks), generate_commit_message succeeds and returns
\* exactly the inner text without the backticks and the whitespace.
C3_WrappedLineYieldsInner ==
    (raw_content.some /\ SingleWrappedLine(raw_content.val)) =>
        commit_message = Some(InnerText(raw_content.val))

C3_Witness ==
    /\ raw_content.some
    /\ SingleWrappedLine(raw_content.val)
    /\ IsWs(raw_content.val[1])
    /\ IsWs(raw_content.val[Len(raw_content.val)])
    /\ commit_message.some

\* C4: when the raw content has several lines and its first non-blank line
\* is not backtick-wrapped, generate_commit_message returns exactly that
\* line, trimmed.
C4_FirstPlainLineKept ==
    (/\ raw_content.some
     /\ HasLineBreak(raw_content.val)
     /\ ~IsBlank(raw_content.val)
     /\ ~BacktickWrapped(Trim(FirstNonBlankLine(raw_content.val)))) =>
        commit_message = Some(Trim(FirstNonBlankLine(raw_content.val)))

\* the response passed the status check and parsed, and has no choices or
\* a first choice without content
NoFirstContent(resp) ==
    /\ resp.delivered
    /\ ~error_for_status(resp.status)
    /\ resp.parses
    /\ (resp.choices = <<>> \/ ~resp.choices[1].some)

\* C5: in the commit variant, when the parsed response has no choices or
\* its first choice has no content, the run ends with the no-candidates
\* error, the post-processing step never ran and no message was returned,
\* whatever the later choices hold.
C5_NoCandidatesIsTerminal ==
    (CommitRun /\ response.some /\ NoFirstContent(response.val)) =>
        /\ pc = "exit"
        /\ result = NoCandidates
        /\ ~raw_content.some
        /\ ~commit_message.some

C5_Witness ==
    /\ CommitRun
    /\ response.some
    /\ NoFirstContent(response.val)
    /\ Len(response.val.choices) >= 2
    /\ response.val.choices[2].some
    /\ result = NoCandidates

\* C6: in both variants, a response whose HTTP status is not a success
\* status (200..299) ends the run with an error, and no message or summary
\* is returned.
C6_NonSuccessStatusIsFatal ==
    (/\ response.some
     /\ response.val.delivered
     /\ ~(response.val.status >= 200 /\ response.val.status <= 299)) =>
        /\ pc = "exit"
        /\ ~result.ok
        /\ ~commit_message.some

\* the user pressed ESC at the prompt
UserCancelled == prompted # <<>> /\ Last(prompted).kind = "cancel"

C8_CommitOnlyAfterConfirmation ==
    commits # <<>> =>
        /\ Len(commits) = 1
        /\ git_diffs # <<>>
        /\ commit_message.some
        /\ edited_message.some
        /\ prompted # <<>>
        /\ Last(prompted).kind = "enter"
        /\ commits[1] = edited_message.val
        /\ commits[1] # <<>>

C8_Witness ==
    /\ commits # <<>>
    /\ Len(prompted) >= 2
    /\ prompted[1] = Enter(Some(<<>>))

\* the git diff process ran successfully and printed only whitespace
BlankDiffOutput ==
    /\ diff_proc.some
    /\ diff_proc.val.spawned /\ diff_proc.val.success /\ diff_proc.val.utf8
    /\ IsBlank(diff_proc.val.stdout)

\* C9: when the staged diff printed by git is empty or only whitespace,
\* git_diff fails with the no-staged-changes error, no diff text is
\* returned and no request is ever sent; a diff text that is returned is
\* non-empty and trimmed.
C9_BlankDiffStopsPipeline ==
    /\ BlankDiffOutput =>
          /\ pc = "exit"
          /\ result = NoStagedChanges
          /\ git_diffs = <<>>
          /\ requests = <<>>
    /\ (diff_proc.some /\ pc # "exit") =>
          (git_diffs # <<>> /\ Trim(git_diffs) = git_diffs)

C9_Witness ==
    /\ BlankDiffOutput
    /\ diff_proc.val.stdout # <<>>
    /\ result = NoStagedChanges

\* positions of the substitution marker in the template t
MarkerAt(t) == {i \in 1..(Len(t) - 1) : t[i] = "{" /\ t[i + 1] = "}"}

\* C10: when the user template holds exactly one marker, the request of the
\* commit variant carries exactly the system prompt and then the template
\* with the marker replaced by the whole diff text.
C10_RequestMessages ==
    (CommitRun /\ Cardinality(MarkerAt(config.diff_prompt)) = 1) =>
        LET t == config.diff_prompt
            i == CHOOSE k \in MarkerAt(t) : TRUE
        IN  requests[1].payload.messages =
                <<Message("system", config.commit_prompt),
                  Message("user", SubSeq(t, 1, i - 1) \o git_diffs
                                  \o SubSeq(t, i + 2, Len(t)))>>

C10_Witness ==
    /\ CommitRun
    /\ Cardinality(MarkerAt(config.diff_prompt)) = 1
    /\ Len(config.diff_prompt) > 2
    /\ MarkerAt(git_diffs) # {}

====
